---- MODULE Spec2Model ----
(***************************************************************************)
(* Model of simple_openid: the pydantic message models of data.py, the     *)
(* provider discovery routine of discovery.py and the header helpers of    *)
(* utils.py.                                                               *)
(*                                                                         *)
(* Text is a sequence of tokens.  A token is one character that the code   *)
(* inspects (";", "/", a quote, a backslash, a blank) or an atom: a run of *)
(* characters none of which the code inspects ("application/json",         *)
(* "https://idp.example.com").  Python's find, count, strip, removesuffix  *)
(* and == act on token sequences exactly as on the character strings.      *)
(***************************************************************************)
EXTENDS Integers, Sequences, FiniteSets, TLC

VARIABLES
    pc,             \* position in discover_configuration_from_issuer
    issuerArg,      \* its argument
    issuer,         \* its local variable issuer, after line 23
    url,            \* the URL handed to requests.get
    transportError, \* what requests.get raised, "none" if it did not raise
    response,       \* what requests.get returned, None before it returns
    parsed,         \* whether parse_raw has been called in this call
    outcome,        \* how the call ended
    invocations,    \* calls of discover_configuration_from_issuer so far
    requestsSent,   \* HTTP GETs issued so far
    msgType,        \* the model class last instantiated
    input,          \* the mapping it was instantiated from
    instance,       \* the attribute values of the instance, None if none
    raised,         \* the exception of the last operation on it, or None
    lastOp,         \* the last operation on it
    headerLine,     \* the header value handed to the helpers of utils.py
    mainType,       \* what _parse_header returned for it, None before the call
    isJson,         \* what is_application_json returned for it, None before the call
    ppc,            \* position of every concurrent invocation
    given,          \* what every concurrent invocation is called with
    frames,         \* the local variables of the concurrent invocations
    results         \* how every concurrent invocation ended

discoveryVars == <<pc, issuerArg, issuer, url, transportError, response, parsed, outcome,
                   invocations, requestsSent>>
messageVars == <<msgType, input, instance, raised, lastOp>>
headerVars == <<headerLine, mainType, isJson>>
concurrentVars == <<ppc, given, frames, results>>
vars == <<pc, issuerArg, issuer, url, transportError, response, parsed, outcome,
          invocations, requestsSent,
          msgType, input, instance, raised, lastOp,
          headerLine, mainType, isJson,
          ppc, given, frames, results>>

----------------------------------------------------------------------------
(* Bounds *)

MaxPathLen == 3       \* tokens after the origin in an issuer argument
MaxExtraFields == 2   \* undeclared fields in the input of a model
MaxAssignments == 2   \* attribute assignments tried on one instance
MaxCalls == 2         \* calls of discover_configuration_from_issuer
MaxHeaderLen == 4     \* tokens in a header value
NumProcs == 2         \* concurrent invocations

----------------------------------------------------------------------------
(* Text helpers *)

Min(S) == CHOOSE m \in S : \A n \in S : m <= n

SeqsUpTo(A, n) == UNION {[1..k -> A] : k \in 0..n}

Whitespace == {" ", "\t"}

\* str.strip()
RECURSIVE strip(_)
strip(s) ==
    IF s = <<>> THEN s
    ELSE IF Head(s) \in Whitespace THEN strip(Tail(s))
    ELSE IF s[Len(s)] \in Whitespace THEN strip(SubSeq(s, 1, Len(s) - 1))
    ELSE s

\* str.find(c, start): 0-based index of the first c at or after start, or -1
find(s, c, start) ==
    LET I == {i \in start..(Len(s) - 1) : s[i + 1] = c}
    IN IF I = {} THEN -1 ELSE Min(I)

\* str.count(sub, 0, end) for a one-character sub
count(s, c, end) ==
    Cardinality({i \in 0..(Min({end, Len(s)}) - 1) : s[i + 1] = c})

\* str.count(sub, 0, end) for the two-character sub c1 c2
count2(s, c1, c2, end) ==
    Cardinality({i \in 0..(Min({end, Len(s)}) - 2) : s[i + 1] = c1 /\ s[i + 2] = c2})

\* str.rstrip(c): every trailing c is removed
RECURSIVE rstrip(_, _)
rstrip(s, c) ==
    IF Len(s) > 0 /\ s[Len(s)] = c THEN rstrip(SubSeq(s, 1, Len(s) - 1), c) ELSE s

\* str.removesuffix(suffix) for a one-character suffix
removesuffix(s, c) ==
    IF Len(s) > 0 /\ s[Len(s)] = c THEN SubSeq(s, 1, Len(s) - 1) ELSE s

----------------------------------------------------------------------------
(* utils.py *)

\* the inner loop without the test on quotes: the first ";" ends the item
parseparam_end_unquoted(s, end) == end

\* the inner while loop of _parseparam: skip every ";" inside a quoted segment
RECURSIVE parseparam_end(_, _)
parseparam_end(s, end) ==
    IF end > 0 /\ (count(s, "\"", end) - count2(s, "\\", "\"", end)) % 2 = 1
    THEN parseparam_end(s, find(s, ";", end + 1))
    ELSE end

\* the first item the generator _parseparam(s) yields; s starts with ";"
_parseparam(s) ==
    LET s1 == Tail(s)
        e0 == parseparam_end(s1, find(s1, ";", 0))
        end == IF e0 < 0 THEN Len(s1) ELSE e0
    IN strip(SubSeq(s1, 1, end))

_parse_header(line) == _parseparam(<<";">> \o line)

is_application_json(content_type) ==
    _parse_header(content_type) = <<"application/json">>

----------------------------------------------------------------------------
(* Values: decoded JSON / Python values *)

None == [t |-> "none"]
StrV(s) == [t |-> "str", v |-> s]
IntV(n) == [t |-> "int", n |-> n]
BoolV(b) == [t |-> "bool", b |-> b]
ListV(l) == [t |-> "list", l |-> l]
S(tok) == StrV(<<tok>>)

----------------------------------------------------------------------------
(* data.py: the message models.  A field annotated X is required; a field  *)
(* annotated Optional[X] may be absent or null and is then None, or the    *)
(* value assigned in the class body.                                       *)

\* a field without Optional that may nevertheless be left out
Required_lenient(shape) ==
    [shape |-> shape, optional |-> FALSE, required |-> FALSE, default |-> None]

Required(shape) ==
    [shape |-> shape, optional |-> FALSE, required |-> TRUE, default |-> None]
Optional(shape) ==
    [shape |-> shape, optional |-> TRUE, required |-> FALSE, default |-> None]
OptionalDefault(shape, d) ==
    [shape |-> shape, optional |-> TRUE, required |-> FALSE, default |-> d]

\* pydantic's BaseConfig, which a model's Config class overrides key by key
BaseConfig == [extra |-> "ignore", allow_mutation |-> TRUE, use_enum_values |-> FALSE]

\* the Config of ProviderMetadata without its extra line
ProviderMetadata_Config_no_extra ==
    [BaseConfig EXCEPT !.allow_mutation = FALSE]

ProviderMetadata_Config ==
    [BaseConfig EXCEPT !.extra = "allow", !.allow_mutation = FALSE]

ProviderMetadata_fields ==
    "issuer" :> Required("HttpUrl")
    @@ "authorization_endpoint" :> Required("HttpUrl")
    @@ "token_endpoint" :> Optional("HttpUrl")
    @@ "userinfo_endpoint" :> Optional("HttpUrl")
    @@ "jwks_uri" :> Required("HttpUrl")
    @@ "registration_endpoint" :> Optional("HttpUrl")
    @@ "scopes_supported" :> Optional("List[str]")
    @@ "response_types_supported" :> Optional("List[str]")
    @@ "response_modes_supported" :> OptionalDefault("List[str]", ListV(<<S("query"), S("fragment")>>))
    @@ "grant_types_supported" :> OptionalDefault("List[str]", ListV(<<S("authorization_code"), S("implicit")>>))
    @@ "acr_values_supported" :> Optional("List[str]")
    @@ "subject_types_supported" :> Required("List[str]")
    @@ "id_token_signing_alg_values_supported" :> Required("List[str]")
    @@ "id_token_encryption_alg_values_supported" :> Optional("List[str]")
    @@ "id_token_encryption_enc_values_supported" :> Optional("List[str]")
    @@ "userinfo_signing_alg_values_supported" :> Optional("List[str]")
    @@ "userinfo_encryption_alg_values_supported" :> Optional("List[str]")
    @@ "userinfo_encryption_enc_values_supported" :> Optional("List[str]")
    @@ "request_object_signing_alg_values_supported" :> Optional("List[str]")
    @@ "request_object_encryption_alg_values_supported" :> Optional("List[str]")
    @@ "request_object_encryption_enc_values_supported" :> Optional("List[str]")
    @@ "token_endpoint_auth_methods_supported" :> OptionalDefault("List[str]", ListV(<<S("client_secret_basic")>>))
    @@ "token_endpoint_auth_signing_alg_values_supported" :> Optional("List[str]")
    @@ "display_values_supported" :> Optional("List[str]")
    @@ "claim_types_supported" :> Optional("List[str]")
    @@ "claims_supported" :> Optional("List[str]")
    @@ "service_documentation" :> Optional("HttpUrl")
    @@ "claims_locales_supported" :> Optional("List[str]")
    @@ "ui_locales_supported" :> Optional("List[str]")
    @@ "claims_parameter_supported" :> OptionalDefault("bool", BoolV(FALSE))
    @@ "request_parameter_supported" :> OptionalDefault("bool", BoolV(FALSE))
    @@ "request_uri_parameter_supported" :> OptionalDefault("bool", BoolV(TRUE))
    @@ "require_request_uri_registration" :> OptionalDefault("bool", BoolV(FALSE))
    @@ "op_policy_uri" :> Optional("HttpUrl")
    @@ "op_tos_uri" :> Optional("HttpUrl")

\* the Config of IdToken without its allow_mutation line
IdToken_Config_mutable ==
    [BaseConfig EXCEPT !.extra = "allow"]

IdToken_Config ==
    [BaseConfig EXCEPT !.extra = "allow", !.allow_mutation = FALSE]

IdToken_fields ==
    "iss" :> Required("HttpUrl")
    @@ "sub" :> Required("str")
    @@ "aud" :> Required("Union[str, List[str]]")
    @@ "exp" :> Required("int")
    @@ "iat" :> Required("int")
    @@ "auth_time" :> Optional("int")
    @@ "nonce" :> Optional("str")
    @@ "acr" :> Optional("str")
    @@ "amr" :> Optional("List[str]")
    @@ "azp" :> Optional("str")

UserinfoRequest_Config == BaseConfig

UserinfoRequest_fields == [f \in {} |-> None]

UserinfoSuccessResponse_Config ==
    [BaseConfig EXCEPT !.extra = "allow", !.allow_mutation = FALSE]

UserinfoSuccessResponse_fields ==
    "sub" :> Required("str")

UserinfoErrorResponse_Config ==
    [BaseConfig EXCEPT !.allow_mutation = FALSE]

UserinfoErrorResponse_fields ==
    "error" :> Required("str")
    @@ "error_description" :> Optional("str")

AuthenticationRequest_Config ==
    [BaseConfig EXCEPT !.extra = "allow"]

AuthenticationRequest_fields ==
    "scope" :> Required("str")
    @@ "response_type" :> Required("str")
    @@ "client_id" :> Required("str")
    @@ "redirect_uri" :> Required("str")
    @@ "state" :> Optional("str")
    @@ "response_mode" :> Optional("str")
    @@ "nonce" :> Optional("str")
    @@ "display" :> Optional("List[str]")
    @@ "prompt" :> Optional("List[str]")
    @@ "max_age" :> Optional("int")
    @@ "ui_locales" :> Optional("List[str]")
    @@ "id_token_hint" :> Optional("str")
    @@ "login_hint" :> Optional("str")
    @@ "acr_values" :> Optional("List[str]")

\* the Config of AuthenticationSuccessResponse with extra = Extra.allow added
AuthenticationSuccessResponse_Config_allow ==
    [BaseConfig EXCEPT !.extra = "allow", !.allow_mutation = FALSE]

AuthenticationSuccessResponse_Config ==
    [BaseConfig EXCEPT !.allow_mutation = FALSE]

AuthenticationSuccessResponse_fields ==
    "code" :> Required("str")
    @@ "state" :> Optional("str")

AuthenticationErrorResponse_ErrorType ==
    {"invalid_request",
     "unauthorized_client",
     "access_denied",
     "unsupported_response_type",
     "invalid_scope",
     "server_error",
     "temporarily_unavailable",
     "interaction_required",
     "login_required",
     "account_selection_required",
     "consent_required",
     "invalid_request_uri",
     "invalid_request_object",
     "request_not_supported",
     "request_uri_not_supported",
     "registration_not_supported"}

AuthenticationErrorResponse_Config ==
    [BaseConfig EXCEPT !.extra = "allow", !.allow_mutation = FALSE, !.use_enum_values = TRUE]

AuthenticationErrorResponse_fields ==
    "error" :> Required("AuthenticationErrorResponse.ErrorType")
    @@ "error_description" :> Optional("str")
    @@ "error_uri" :> Optional("str")
    @@ "state" :> Optional("str")

TokenRequest_Config ==
    [BaseConfig EXCEPT !.extra = "allow"]

TokenRequest_fields ==
    "grant_type" :> Required("str")
    @@ "code" :> Required("str")
    @@ "redirect_uri" :> Required("str")
    @@ "client_id" :> Optional("str")

TokenSuccessResponse_Config ==
    [BaseConfig EXCEPT !.allow_mutation = FALSE]

TokenSuccessResponse_fields ==
    "access_token" :> Required("str")
    @@ "token_type" :> Required("str")
    @@ "expires_in" :> Optional("int")
    @@ "refresh_token" :> Optional("str")
    @@ "scope" :> Optional("str")
    @@ "id_token" :> Required("str")

TokenErrorResponse_ErrorType ==
    {"invalid_request",
     "invalid_client",
     "invalid_grant",
     "unauthorized_client",
     "unsupported_grant_type",
     "invalid_scope"}

\* the Config of TokenErrorResponse with extra = Extra.forbid
TokenErrorResponse_Config_forbid ==
    [BaseConfig EXCEPT !.extra = "forbid", !.allow_mutation = FALSE, !.use_enum_values = TRUE]

TokenErrorResponse_Config ==
    [BaseConfig EXCEPT !.extra = "allow", !.allow_mutation = FALSE, !.use_enum_values = TRUE]

TokenErrorResponse_fields ==
    "error" :> Required("TokenErrorResponse.ErrorType")
    @@ "error_description" :> Optional("str")
    @@ "error_uri" :> Optional("str")

MessageTypes ==
    {"ProviderMetadata",
     "IdToken",
     "UserinfoRequest",
     "UserinfoSuccessResponse",
     "UserinfoErrorResponse",
     "AuthenticationRequest",
     "AuthenticationSuccessResponse",
     "AuthenticationErrorResponse",
     "TokenRequest",
     "TokenSuccessResponse",
     "TokenErrorResponse"}

Config(T) ==
    CASE T = "ProviderMetadata" -> ProviderMetadata_Config
      [] T = "IdToken" -> IdToken_Config
      [] T = "UserinfoRequest" -> UserinfoRequest_Config
      [] T = "UserinfoSuccessResponse" -> UserinfoSuccessResponse_Config
      [] T = "UserinfoErrorResponse" -> UserinfoErrorResponse_Config
      [] T = "AuthenticationRequest" -> AuthenticationRequest_Config
      [] T = "AuthenticationSuccessResponse" -> AuthenticationSuccessResponse_Config
      [] T = "AuthenticationErrorResponse" -> AuthenticationErrorResponse_Config
      [] T = "TokenRequest" -> TokenRequest_Config
      [] T = "TokenSuccessResponse" -> TokenSuccessResponse_Config
      [] T = "TokenErrorResponse" -> TokenErrorResponse_Config

fields(T) ==
    CASE T = "ProviderMetadata" -> ProviderMetadata_fields
      [] T = "IdToken" -> IdToken_fields
      [] T = "UserinfoRequest" -> UserinfoRequest_fields
      [] T = "UserinfoSuccessResponse" -> UserinfoSuccessResponse_fields
      [] T = "UserinfoErrorResponse" -> UserinfoErrorResponse_fields
      [] T = "AuthenticationRequest" -> AuthenticationRequest_fields
      [] T = "AuthenticationSuccessResponse" -> AuthenticationSuccessResponse_fields
      [] T = "AuthenticationErrorResponse" -> AuthenticationErrorResponse_fields
      [] T = "TokenRequest" -> TokenRequest_fields
      [] T = "TokenSuccessResponse" -> TokenSuccessResponse_fields
      [] T = "TokenErrorResponse" -> TokenErrorResponse_fields


----------------------------------------------------------------------------
(* Field validation, as pydantic performs it for the annotations of        *)
(* data.py.  A validator gives [ok |-> TRUE, v |-> value] or               *)
(* [ok |-> FALSE, type |-> error type].                                    *)

Ok(v) == [ok |-> TRUE, v |-> v]
Err(type) == [ok |-> FALSE, type |-> type]

UrlOrigins == {"https://idp.example.com", "https://evil.example.com"}
UrlPathTokens == {"/", "auth", "jwks"}

\* annotation str: text is kept, a number is rendered as text
str_validator(v) ==
    CASE v.t = "str" -> Ok(v)
      [] v.t = "int" -> Ok(S(ToString(v.n)))
      [] v.t = "bool" -> Ok(S(IF v.b THEN "True" ELSE "False"))
      [] OTHER -> Err("type_error.str")

\* annotation int: an int is kept, True/False and decimal text are converted
int_validator(v) ==
    CASE v.t = "int" -> Ok(v)
      [] v.t = "bool" -> Ok(IntV(IF v.b THEN 1 ELSE 0))
      [] v.t = "str" ->
           IF \E n \in 0..9 : v.v = <<ToString(n)>>
           THEN Ok(IntV(CHOOSE n \in 0..9 : v.v = <<ToString(n)>>))
           ELSE Err("type_error.integer")
      [] OTHER -> Err("type_error.integer")

\* annotation bool
bool_validator(v) ==
    CASE v.t = "bool" -> Ok(v)
      [] v.t = "int" /\ v.n \in {0, 1} -> Ok(BoolV(v.n = 1))
      [] v.t = "str" /\ v.v \in {<<"true">>, <<"1">>} -> Ok(BoolV(TRUE))
      [] v.t = "str" /\ v.v \in {<<"false">>, <<"0">>} -> Ok(BoolV(FALSE))
      [] OTHER -> Err("type_error.bool")

\* annotation List[str]: only a list is a list; each item goes through str
list_str_validator(v) ==
    IF v.t # "list" THEN Err("type_error.list")
    ELSE IF \E i \in 1..Len(v.l) : ~str_validator(v.l[i]).ok
    THEN Err("type_error.str")
    ELSE Ok(ListV([i \in 1..Len(v.l) |-> str_validator(v.l[i]).v]))

\* annotation Union[str, List[str]]: the first member that validates wins
\* a union validator that turns a single text into a list of one text
union_str_list_validator_as_list(v) ==
    IF str_validator(v).ok THEN Ok(ListV(<<str_validator(v).v>>))
    ELSE IF list_str_validator(v).ok THEN list_str_validator(v)
    ELSE Err("type_error.str")

union_str_list_validator(v) ==
    IF str_validator(v).ok THEN str_validator(v)
    ELSE IF list_str_validator(v).ok THEN list_str_validator(v)
    ELSE Err("type_error.str")

\* annotation HttpUrl: text made of an http(s) origin and a path
url_validator(v) ==
    IF ~str_validator(v).ok THEN Err("type_error.str")
    ELSE LET s == str_validator(v).v.v
         IN IF /\ Len(s) > 0
               /\ s[1] \in UrlOrigins
               /\ \A i \in 2..Len(s) : s[i] \in UrlPathTokens
               /\ (Len(s) > 1 => s[2] = "/")
            THEN Ok(StrV(s))
            ELSE Err("value_error.url")

\* the error field annotated str, as in UserinfoErrorResponse
enum_validator_any_str(members, v) ==
    IF v.t = "str" THEN [ok |-> TRUE, v |-> v] ELSE [ok |-> FALSE, type |-> "type_error.str"]

\* annotation of an enum.Enum subclass, stored by value (use_enum_values)
enum_validator(members, v) ==
    IF v.t = "str" /\ Len(v.v) = 1 /\ v.v[1] \in members
    THEN Ok(v)
    ELSE Err("type_error.enum")

validate_shape(shape, v) ==
    CASE shape = "str" -> str_validator(v)
      [] shape = "int" -> int_validator(v)
      [] shape = "bool" -> bool_validator(v)
      [] shape = "List[str]" -> list_str_validator(v)
      [] shape = "Union[str, List[str]]" -> union_str_list_validator(v)
      [] shape = "HttpUrl" -> url_validator(v)
      [] shape = "AuthenticationErrorResponse.ErrorType" ->
           enum_validator(AuthenticationErrorResponse_ErrorType, v)
      [] shape = "TokenErrorResponse.ErrorType" ->
           enum_validator(TokenErrorResponse_ErrorType, v)

\* one field of the input against its descriptor
validate_field(d, v) ==
    IF v = None
    THEN IF d.optional THEN Ok(None) ELSE Err("type_error.none.not_allowed")
    ELSE validate_shape(d.shape, v)

\* the errors of validating the mapping obj as a T
validation_errors(T, obj) ==
    LET F == fields(T)
    IN {[loc |-> f, type |-> "value_error.missing"] :
            f \in {g \in DOMAIN F : F[g].required /\ g \notin DOMAIN obj}}
       \cup
       {[loc |-> f, type |-> validate_field(F[f], obj[f]).type] :
            f \in {g \in DOMAIN F \cap DOMAIN obj : ~validate_field(F[g], obj[g]).ok}}
       \cup
       {[loc |-> f, type |-> "value_error.extra"] :
            f \in {g \in DOMAIN obj \ DOMAIN F : Config(T).extra = "forbid"}}

\* attribute values where an empty or false input value gives way to the default
validated_values_default_if_falsy(T, obj) ==
    LET F == fields(T)
        kept == IF Config(T).extra = "allow" THEN DOMAIN obj \ DOMAIN F ELSE {}
    IN [f \in DOMAIN F \cup kept |->
           IF f \in DOMAIN F
           THEN IF f \in DOMAIN obj
                      /\ validate_field(F[f], obj[f]).v \notin {None, ListV(<<>>), BoolV(FALSE)}
                THEN validate_field(F[f], obj[f]).v
                ELSE F[f].default
           ELSE obj[f]]

\* the attribute values of a T built from the mapping obj
validated_values(T, obj) ==
    LET F == fields(T)
        kept == IF Config(T).extra = "allow" THEN DOMAIN obj \ DOMAIN F ELSE {}
    IN [f \in DOMAIN F \cup kept |->
           IF f \in DOMAIN F
           THEN IF f \in DOMAIN obj THEN validate_field(F[f], obj[f]).v
                ELSE F[f].default
           ELSE obj[f]]

\* T(**obj): an instance, or a ValidationError that lists every error
validate_model(T, obj) ==
    IF validation_errors(T, obj) = {}
    THEN [ok |-> TRUE, type |-> T, values |-> validated_values(T, obj)]
    ELSE [ok |-> FALSE, type |-> T, errors |-> validation_errors(T, obj)]

\* instance.name = value
setattr(T, values, name, value) ==
    IF Config(T).extra # "allow" /\ name \notin DOMAIN fields(T)
    THEN [ok |-> FALSE, exc |-> "ValueError", values |-> values]
    ELSE IF ~Config(T).allow_mutation
    THEN [ok |-> FALSE, exc |-> "TypeError", values |-> values]
    ELSE [ok |-> TRUE, exc |-> "",
          values |-> [f \in DOMAIN values \cup {name} |->
                         IF f = name THEN value ELSE values[f]]]


----------------------------------------------------------------------------
(* Serialisation: instance.json() and the decoding done by parse_raw *)

\* the JSON text of one attribute value
RECURSIVE json_encode(_)
json_encode(v) ==
    CASE v.t = "none" -> [j |-> "null"]
      [] v.t = "str" -> [j |-> "string", chars |-> v.v]
      [] v.t = "int" -> [j |-> "number", n |-> v.n]
      [] v.t = "bool" -> [j |-> IF v.b THEN "true" ELSE "false"]
      [] v.t = "list" -> [j |-> "array", items |-> [i \in 1..Len(v.l) |-> json_encode(v.l[i])]]

\* the value that a JSON text decodes to
RECURSIVE json_decode(_)
json_decode(x) ==
    CASE x.j = "null" -> None
      [] x.j = "string" -> StrV(x.chars)
      [] x.j = "number" -> IntV(x.n)
      [] x.j = "true" -> BoolV(TRUE)
      [] x.j = "false" -> BoolV(FALSE)
      [] x.j = "array" -> ListV([i \in 1..Len(x.items) |-> json_decode(x.items[i])])

\* instance.json(): a JSON object with a member for every attribute
json(values) == [f \in DOMAIN values |-> json_encode(values[f])]

\* T.parse_raw(text) for the text of a JSON object
parse_json_object(T, text) ==
    validate_model(T, [f \in DOMAIN text |-> json_decode(text[f])])

----------------------------------------------------------------------------
(* Exceptions and HTTP responses *)

Exception(type, args, errors, cause) ==
    [type |-> type, args |-> args, errors |-> errors, cause |-> cause]

\* what requests.get raises when no response arrives
TransportErrors == {"ConnectionError", "Timeout"}

ObjV(m) == [t |-> "object", m |-> m]
Undecodable == [t |-> "bytes"]
Json(v) == [t |-> "json", v |-> v]

Response(status, content_type, content) ==
    [status_code |-> status, content_type |-> content_type, content |-> content]

\* ProviderMetadata.parse_raw(content): decode the JSON text, then validate
parse_raw(T, content) ==
    IF content.t # "json"
    THEN [ok |-> FALSE, type |-> T,
          errors |-> {[loc |-> "__root__", type |-> "value_error.jsondecode"]}]
    ELSE IF content.v.t # "object"
    THEN [ok |-> FALSE, type |-> T,
          errors |-> {[loc |-> "__root__", type |-> "type_error.dict"]}]
    ELSE validate_model(T, content.v.m)

----------------------------------------------------------------------------
(* Inputs of the discovery model *)

Idp == "https://idp.example.com"
Evil == "https://evil.example.com"

IssuerStrings == {<<Idp>> \o p : p \in SeqsUpTo({"/", "auth"}, MaxPathLen)}

StatusCodes == {200, 404, 500}

ContentTypes ==
    {None,
     S("application/json"),
     StrV(<<"application/json", ";", " ", "charset=utf-8">>),
     StrV(<<"application/json", ";", " ", "foo=", "\"", "a", ";", "b", "\"">>),
     S("text/html"),
     StrV(<<"text/html", ";", " ", "charset=utf-8">>)}

\* the provider configuration document of an issuer
ProviderDocument(iss) ==
    "issuer" :> StrV(iss)
    @@ "authorization_endpoint" :> StrV(<<Idp, "/", "auth">>)
    @@ "jwks_uri" :> StrV(<<Idp, "/", "jwks">>)
    @@ "subject_types_supported" :> ListV(<<S("public")>>)
    @@ "id_token_signing_alg_values_supported" :> ListV(<<S("RS256")>>)
    @@ "response_types_supported" :> ListV(<<S("code")>>)

Without(m, f) == [g \in DOMAIN m \ {f} |-> m[g]]

DocumentVariants(iss) ==
    {ProviderDocument(iss),
     Without(ProviderDocument(iss), "jwks_uri"),
     [ProviderDocument(iss) EXCEPT !["subject_types_supported"] = S("public")],
     ProviderDocument(iss) @@ "check_session_iframe" :> StrV(<<Idp, "/", "auth">>)}

Contents ==
    {Undecodable, Json(ListV(<<>>))}
    \cup {Json(ObjV(d)) : d \in UNION {DocumentVariants(i) : i \in IssuerStrings \cup {<<Evil>>}}}

Responses ==
    {Response(st, ct, c) : st \in StatusCodes, ct \in ContentTypes, c \in Contents}

----------------------------------------------------------------------------
(* discovery.py: discover_configuration_from_issuer *)

NotJsonMessage ==
    S("The provider did not respond with a json document although it is required to do so")
NotConformingMessage ==
    S("The provider did not respond with a provider configuration according to spec")

NoOutcome == [kind |-> "none", value |-> None, exc |-> None]
Returned(v) == [kind |-> "returned", value |-> v, exc |-> None]
Raised(e) == [kind |-> "raised", value |-> None, exc |-> e]

\* lines 23-24: normalise the issuer and send the GET
Call ==
    /\ pc \in {"idle", "done"}
    /\ invocations < MaxCalls
    /\ invocations' = invocations + 1
    /\ requestsSent' = requestsSent + 1
    /\ \E i \in IssuerStrings :
          /\ issuerArg' = i
          /\ issuer' = removesuffix(i, "/")
          /\ url' = removesuffix(i, "/") \o <<"/.well-known/openid-configuration">>
    /\ transportError' = "none"
    /\ response' = None
    /\ parsed' = FALSE
    /\ outcome' = NoOutcome
    /\ pc' = "get"
    /\ UNCHANGED <<messageVars, headerVars, concurrentVars>>

\* requests.get raises and the error is turned into an OpenidProtocolError
GetRaises_wrapped ==
    /\ pc = "get"
    /\ \E e \in TransportErrors :
          /\ transportError' = e
          /\ outcome' = Raised(Exception("OpenidProtocolError", <<>>, {},
                                         Exception(e, <<>>, {}, None)))
    /\ pc' = "done"
    /\ UNCHANGED <<issuerArg, issuer, url, response, parsed>>
    /\ UNCHANGED <<invocations, requestsSent>>
    /\ UNCHANGED <<messageVars, headerVars, concurrentVars>>

\* requests.get raises and the GET is sent again
GetRaises_retry ==
    /\ pc = "get"
    /\ \E e \in TransportErrors : transportError' = e
    /\ requestsSent' = requestsSent + 1
    /\ UNCHANGED <<pc, issuerArg, issuer, url, response, parsed, outcome, invocations>>
    /\ UNCHANGED <<messageVars, headerVars, concurrentVars>>

\* line 24: requests.get raises; nothing in the function catches it
GetRaises ==
    /\ pc = "get"
    /\ \E e \in TransportErrors :
          /\ transportError' = e
          /\ outcome' = Raised(Exception(e, <<>>, {}, None))
    /\ pc' = "done"
    /\ UNCHANGED <<issuerArg, issuer, url, response, parsed>>
    /\ UNCHANGED <<invocations, requestsSent>>
    /\ UNCHANGED <<messageVars, headerVars, concurrentVars>>

\* line 24: requests.get returns a response, whatever its status
GetReturns ==
    /\ pc = "get"
    /\ \E r \in Responses : response' = r
    /\ pc' = "check_content_type"
    /\ UNCHANGED <<issuerArg, issuer, url, transportError, parsed, outcome>>
    /\ UNCHANGED <<invocations, requestsSent>>
    /\ UNCHANGED <<messageVars, headerVars, concurrentVars>>

\* a test that lets every header through
content_type_accepted_any(content_type) == TRUE

\* a header check that lets a response without the header through
content_type_accepted_or_absent(content_type) ==
    content_type = None \/ content_type = S("application/json")

\* line 26: the test on the Content-Type header
content_type_accepted(content_type) == content_type = S("application/json")

\* lines 26-30
CheckContentType ==
    /\ pc = "check_content_type"
    /\ IF content_type_accepted(response.content_type)
       THEN /\ pc' = "parse"
            /\ UNCHANGED outcome
       ELSE /\ pc' = "done"
            /\ outcome' = Raised(Exception("OpenidProtocolError",
                                 <<NotJsonMessage, response.content_type>>, {}, None))
    /\ UNCHANGED <<issuerArg, issuer, url, transportError, response, parsed>>
    /\ UNCHANGED <<invocations, requestsSent>>
    /\ UNCHANGED <<messageVars, headerVars, concurrentVars>>

\* the assertion left out
issuer_matches_unchecked(result, iss) == TRUE

\* line 34: assert result.issuer == issuer
issuer_matches(result, iss) == result.values["issuer"] = StrV(iss)

\* lines 32-38: what the try block raises, or None
try_block_exception(content, iss) ==
    LET result == parse_raw("ProviderMetadata", content)
    IN IF ~result.ok
       THEN Exception("ValidationError", <<>>, result.errors, None)
       ELSE IF ~issuer_matches(result, iss)
       THEN Exception("AssertionError", <<>>, {}, None)
       ELSE None

\* the exception of the try block raised as it is
except_clause_reraise(e) == e

\* lines 35-38: except Exception as e: raise OpenidProtocolError(...) from e
except_clause(e) ==
    Exception("OpenidProtocolError", <<NotConformingMessage>>, {}, e)

\* lines 32-40
ParseBody ==
    /\ pc = "parse"
    /\ parsed' = TRUE
    /\ LET e == try_block_exception(response.content, issuer)
       IN IF e # None
          THEN outcome' = Raised(except_clause(e))
          ELSE outcome' = Returned(parse_raw("ProviderMetadata", response.content))
    /\ pc' = "done"
    /\ UNCHANGED <<issuerArg, issuer, url, transportError, response>>
    /\ UNCHANGED <<invocations, requestsSent>>
    /\ UNCHANGED <<messageVars, headerVars, concurrentVars>>

----------------------------------------------------------------------------
(* Specification of discovery *)

InitDiscovery ==
    /\ pc = "idle"
    /\ issuerArg = <<>>
    /\ issuer = <<>>
    /\ url = <<>>
    /\ transportError = "none"
    /\ response = None
    /\ parsed = FALSE
    /\ outcome = NoOutcome
    /\ invocations = 0
    /\ requestsSent = 0

InitMessages ==
    /\ msgType = "none"
    /\ input = None
    /\ instance = None
    /\ raised = None
    /\ lastOp = [op |-> "none", n |-> 0]

\* no call of a header helper has been made
InitHeader ==
    /\ headerLine = <<>>
    /\ mainType = None
    /\ isJson = None

Procs == 1..NumProcs

NotCalled == [op |-> "none"]
EmptyFrame == [issuer |-> <<>>, response |-> None, obj |-> None]

\* no concurrent invocation has started
InitConcurrent ==
    /\ ppc = [p \in Procs |-> "idle"]
    /\ given = [p \in Procs |-> NotCalled]
    /\ frames = [p \in Procs |-> EmptyFrame]
    /\ results = [p \in Procs |-> NoOutcome]

Init == InitDiscovery /\ InitMessages /\ InitHeader /\ InitConcurrent

Next ==
    \/ Call
    \/ GetRaises
    \/ GetReturns
    \/ CheckContentType
    \/ ParseBody

Spec == Init /\ [][Next]_vars


----------------------------------------------------------------------------
(* Inputs of the message model *)

SampleValue(shape) ==
    CASE shape = "str" -> S("abc")
      [] shape = "int" -> IntV(1)
      [] shape = "bool" -> BoolV(TRUE)
      [] shape = "List[str]" -> ListV(<<S("abc")>>)
      [] shape = "Union[str, List[str]]" -> S("client123")
      [] shape = "HttpUrl" -> StrV(<<Idp, "/", "auth">>)
      [] shape = "AuthenticationErrorResponse.ErrorType" -> S("access_denied")
      [] shape = "TokenErrorResponse.ErrorType" -> S("invalid_client")

RequiredFields(T) == {f \in DOMAIN fields(T) : fields(T)[f].required}

\* every required field, each with a value of its shape
MinimalInput(T) == [f \in RequiredFields(T) |-> SampleValue(fields(T)[f].shape)]

FieldValues ==
    {None, S("abc"), S("authorization_code"), S("access_denied"), S("invalid_client"),
     IntV(1), BoolV(TRUE), BoolV(FALSE), ListV(<<>>),
     ListV(<<S("client123")>>), ListV(<<S("client123"), S("other")>>),
     StrV(<<Idp>>)}

ExtraNames == {"x_extension_" \o ToString(i) : i \in 1..MaxExtraFields}
ExtraValues == {S("abc"), ListV(<<IntV(1)>>)}

ExtraFields == UNION {[E -> ExtraValues] : E \in SUBSET ExtraNames}

\* the minimal input, with one required field left out or one declared field
\* set to an arbitrary value
DeclaredInputs(T) ==
    {MinimalInput(T)}
    \cup {Without(MinimalInput(T), f) : f \in RequiredFields(T)}
    \cup {[g \in RequiredFields(T) \cup {f} |->
              IF g = f THEN v ELSE MinimalInput(T)[g]] :
          f \in DOMAIN fields(T), v \in FieldValues}

Inputs(T) == {d @@ x : d \in DeclaredInputs(T), x \in ExtraFields}

\* the attributes an assignment is tried on: declared ones and an undeclared one
AssignNames(T) == RequiredFields(T) \cup {"x_extension_1"}
AssignValues == {None, S("changed")}

----------------------------------------------------------------------------
(* Operations on message instances *)

\* T(**obj) / T.parse_obj(obj)
Construct ==
    /\ lastOp.op = "none"
    /\ \E T \in MessageTypes : \E obj \in Inputs(T) :
          /\ msgType' = T
          /\ input' = obj
          /\ LET r == validate_model(T, obj)
             IN IF r.ok
                THEN /\ instance' = r.values
                     /\ raised' = None
                ELSE /\ instance' = None
                     /\ raised' = Exception("ValidationError", <<>>, r.errors, None)
    /\ lastOp' = [op |-> "construct", n |-> 0]
    /\ UNCHANGED <<discoveryVars, headerVars, concurrentVars>>

\* instance.name = value
Assign ==
    /\ instance # None
    /\ lastOp.n < MaxAssignments
    /\ \E name \in AssignNames(msgType) : \E value \in AssignValues :
          LET r == setattr(msgType, instance, name, value)
          IN /\ instance' = r.values
             /\ raised' = IF r.ok THEN None ELSE Exception(r.exc, <<>>, {}, None)
    /\ lastOp' = [op |-> "setattr", n |-> lastOp.n + 1]
    /\ UNCHANGED <<msgType, input>>
    /\ UNCHANGED <<discoveryVars, headerVars, concurrentVars>>

\* the caller drops the instance, or the exception of a failed construction
Discard ==
    /\ lastOp.op # "none"
    /\ msgType' = "none"
    /\ input' = None
    /\ instance' = None
    /\ raised' = None
    /\ lastOp' = [op |-> "none", n |-> 0]
    /\ UNCHANGED <<discoveryVars, headerVars, concurrentVars>>

\* T.parse_raw(instance.json()) on a freshly constructed instance
RoundTrip ==
    /\ lastOp.op = "construct"
    /\ instance # None
    /\ LET r == parse_json_object(msgType, json(instance))
       IN IF r.ok
          THEN /\ instance' = r.values
               /\ raised' = None
          ELSE /\ instance' = None
               /\ raised' = Exception("ValidationError", <<>>, r.errors, None)
    /\ lastOp' = [op |-> "roundtrip", n |-> 0]
    /\ UNCHANGED <<msgType, input>>
    /\ UNCHANGED <<discoveryVars, headerVars, concurrentVars>>

NextMsg ==
    \/ Construct
    \/ Assign
    \/ RoundTrip
    \/ Discard

SpecMsg == Init /\ [][NextMsg]_vars

----------------------------------------------------------------------------
(* Specification of the header helpers of utils.py *)

HeaderTokens == {"application/json", ";", "\"", "\\", " ", "a"}

HeaderExamples ==
    {<<"application/json", ";", " ", "charset=utf-8">>,
     <<"application/json", ";", " ", "foo=", "\"", "a", ";", "b", "\"">>,
     <<"text/html">>}

HeaderLines == SeqsUpTo(HeaderTokens, MaxHeaderLen) \cup HeaderExamples

\* a header value has arrived and no helper has been called on it
InitHeaderLines ==
    /\ InitDiscovery
    /\ InitMessages
    /\ InitConcurrent
    /\ headerLine \in HeaderLines
    /\ mainType = None
    /\ isJson = None

\* main_type = _parse_header(content_type)
ParseHeader ==
    /\ mainType = None
    /\ mainType' = StrV(_parse_header(headerLine))
    /\ UNCHANGED <<headerLine, isJson>>
    /\ UNCHANGED <<discoveryVars, messageVars, concurrentVars>>

\* is_application_json(content_type)
IsApplicationJson ==
    /\ isJson = None
    /\ isJson' = BoolV(is_application_json(headerLine))
    /\ UNCHANGED <<headerLine, mainType>>
    /\ UNCHANGED <<discoveryVars, messageVars, concurrentVars>>

NextHeader ==
    \/ ParseHeader
    \/ IsApplicationJson

SpecHeader == InitHeaderLines /\ [][NextHeader]_vars

----------------------------------------------------------------------------
(* Concurrent invocations.  discover_configuration_from_issuer and the     *)
(* validation of a model work on their arguments and on local variables    *)
(* only; an invocation reads and writes the frame that holds its locals.   *)

ConcurrentIssuers == {<<Idp, "/">>, <<Idp, "/", "auth">>}

ConcurrentResponses ==
    {Response(200, S("application/json"), Json(ObjV(ProviderDocument(<<Idp>>)))),
     Response(200, S("application/json"), Json(ObjV(ProviderDocument(<<Idp, "/", "auth">>)))),
     Response(200, S("text/html"), Json(ObjV(ProviderDocument(<<Idp>>))))}

\* what requests.get does for one invocation: raise, or return a response
ConcurrentReplies ==
    {[raises |-> "ConnectionError", response |-> None]}
    \cup {[raises |-> "none", response |-> r] : r \in ConcurrentResponses}

ConcurrentInputs ==
    {MinimalInput("TokenRequest"), Without(MinimalInput("TokenRequest"), "code")}

Discoveries ==
    {[op |-> "discover", issuerArg |-> i, reply |-> r, T |-> "none", obj |-> None] :
        i \in ConcurrentIssuers, r \in ConcurrentReplies}

Constructions ==
    {[op |-> "construct", issuerArg |-> <<>>, reply |-> None, T |-> "TokenRequest", obj |-> d] :
        d \in ConcurrentInputs}

\* all invocations write the locals of the first one
frame_shared(p) == 1

\* the frame of locals of invocation p: its own
frame(p) == p

\* discovery.py line 23: an invocation starts and normalises its issuer
StartDiscovery ==
    \E p \in Procs :
        /\ ppc[p] = "idle"
        /\ \E g \in Discoveries :
              /\ given' = [given EXCEPT ![p] = g]
              /\ frames' = [frames EXCEPT ![frame(p)].issuer = removesuffix(g.issuerArg, "/")]
        /\ ppc' = [ppc EXCEPT ![p] = "get"]
        /\ UNCHANGED results
        /\ UNCHANGED <<discoveryVars, messageVars, headerVars>>

\* discovery.py line 24: requests.get raises or returns
ConcurrentGet ==
    \E p \in Procs :
        /\ ppc[p] = "get"
        /\ IF given[p].reply.raises # "none"
           THEN /\ results' = [results EXCEPT ![p] =
                                  Raised(Exception(given[p].reply.raises, <<>>, {}, None))]
                /\ ppc' = [ppc EXCEPT ![p] = "done"]
                /\ UNCHANGED frames
           ELSE /\ frames' = [frames EXCEPT ![frame(p)].response = given[p].reply.response]
                /\ ppc' = [ppc EXCEPT ![p] = "check_content_type"]
                /\ UNCHANGED results
        /\ UNCHANGED given
        /\ UNCHANGED <<discoveryVars, messageVars, headerVars>>

\* discovery.py lines 26-30
ConcurrentCheckContentType ==
    \E p \in Procs :
        /\ ppc[p] = "check_content_type"
        /\ LET r == frames[frame(p)].response
           IN IF content_type_accepted(r.content_type)
              THEN /\ ppc' = [ppc EXCEPT ![p] = "parse"]
                   /\ UNCHANGED results
              ELSE /\ ppc' = [ppc EXCEPT ![p] = "done"]
                   /\ results' = [results EXCEPT ![p] =
                         Raised(Exception("OpenidProtocolError",
                                          <<NotJsonMessage, r.content_type>>, {}, None))]
        /\ UNCHANGED <<given, frames>>
        /\ UNCHANGED <<discoveryVars, messageVars, headerVars>>

\* discovery.py lines 32-40
ConcurrentParseBody ==
    \E p \in Procs :
        /\ ppc[p] = "parse"
        /\ LET f == frames[frame(p)]
               e == try_block_exception(f.response.content, f.issuer)
           IN results' = [results EXCEPT ![p] =
                  IF e # None
                  THEN Raised(except_clause(e))
                  ELSE Returned(parse_raw("ProviderMetadata", f.response.content))]
        /\ ppc' = [ppc EXCEPT ![p] = "done"]
        /\ UNCHANGED <<given, frames>>
        /\ UNCHANGED <<discoveryVars, messageVars, headerVars>>

\* a model class is called with keyword arguments
StartConstruct ==
    \E p \in Procs :
        /\ ppc[p] = "idle"
        /\ \E g \in Constructions :
              /\ given' = [given EXCEPT ![p] = g]
              /\ frames' = [frames EXCEPT ![frame(p)].obj = g.obj]
        /\ ppc' = [ppc EXCEPT ![p] = "validate"]
        /\ UNCHANGED results
        /\ UNCHANGED <<discoveryVars, messageVars, headerVars>>

\* the arguments are validated: an instance, or a ValidationError
ConcurrentValidate ==
    \E p \in Procs :
        /\ ppc[p] = "validate"
        /\ LET r == validate_model(given[p].T, frames[frame(p)].obj)
           IN results' = [results EXCEPT ![p] =
                  IF r.ok
                  THEN Returned(r)
                  ELSE Raised(Exception("ValidationError", <<>>, r.errors, None))]
        /\ ppc' = [ppc EXCEPT ![p] = "done"]
        /\ UNCHANGED <<given, frames>>
        /\ UNCHANGED <<discoveryVars, messageVars, headerVars>>

NextConcurrent ==
    \/ StartDiscovery
    \/ ConcurrentGet
    \/ ConcurrentCheckContentType
    \/ ConcurrentParseBody
    \/ StartConstruct
    \/ ConcurrentValidate

SpecConcurrent == Init /\ [][NextConcurrent]_vars

----------------------------------------------------------------------------
(* Properties of discovery *)

WellKnown == "/.well-known/openid-configuration"

Failed(type) ==
    /\ outcome.kind = "raised"
    /\ outcome.value = None
    /\ outcome.exc.type = type

\* the issuer member of a response body, None when the body has none
BodyIssuer(content) ==
    IF content.t = "json" /\ content.v.t = "object" /\ "issuer" \in DOMAIN content.v.m
    THEN content.v.m["issuer"]
    ELSE None

\* the body is a provider configuration that names the requested issuer
ValidBodyFor(content, arg) ==
    /\ parse_raw("ProviderMetadata", content).ok
    /\ BodyIssuer(content) = StrV(removesuffix(arg, "/"))

\* C1: metadata is returned only with an issuer equal to the requested
\* issuer without its trailing "/"; a body with any other issuer makes the
\* call fail with OpenidProtocolError and return nothing.
C1_ReturnedIssuerIsRequestedIssuer ==
    /\ (pc = "done" /\ outcome.kind = "returned")
          => outcome.value.values["issuer"] = StrV(removesuffix(issuerArg, "/"))
    /\ (pc = "done" /\ response # None
          /\ BodyIssuer(response.content) # StrV(removesuffix(issuerArg, "/")))
          => Failed("OpenidProtocolError")

C1_Witness ==
    /\ pc = "done"
    /\ outcome.kind = "returned"
    /\ issuerArg = <<Idp, "/">>
    /\ outcome.value.values["issuer"] = S(Idp)

\* C2: a Content-Type header whose base media type is application/json
\* passes the content-type step whatever its parameters; the step fails only
\* when the base media type is not application/json.
C2_ParametersIgnored ==
    (pc \in {"parse", "done"} /\ response # None /\ response.content_type # None
        /\ is_application_json(response.content_type.v))
    => (parsed \/ pc = "parse")

\* C3: a response whose media type is not application/json fails with an
\* OpenidProtocolError that carries the header, whatever the body, and the
\* body is not parsed.
C3_NonJsonRejectedBeforeParsing ==
    (pc = "done" /\ response # None /\ response.content_type # None
        /\ ~is_application_json(response.content_type.v))
    => /\ Failed("OpenidProtocolError")
       /\ outcome.exc.args = <<NotJsonMessage, response.content_type>>
       /\ ~parsed

C3_Witness ==
    /\ pc = "done"
    /\ response # None
    /\ response.content_type = S("text/html")
    /\ ValidBodyFor(response.content, issuerArg)
    /\ Failed("OpenidProtocolError")
    /\ ~parsed

\* C4: an issuer s without trailing "/" and the issuer s + "/" are both
\* fetched from s + "/.well-known/openid-configuration"; one trailing "/"
\* is removed, never more.
C4_OneTrailingSlashStripped ==
    pc # "idle" =>
        LET n == Len(issuerArg)
        IN /\ (n = 0 \/ issuerArg[n] # "/") => url = issuerArg \o <<WellKnown>>
           /\ (n > 0 /\ issuerArg[n] = "/")
                 => url = SubSeq(issuerArg, 1, n - 1) \o <<WellKnown>>

C4_Witness ==
    /\ pc = "get"
    /\ issuerArg = <<Idp, "/", "/">>
    /\ url = <<Idp, "/", WellKnown>>

C6_Non2xxNeverReturns ==
    (pc = "done" /\ response # None /\ response.status_code \notin 200..299)
    => outcome.kind # "returned"

\* C7: once the content-type check has passed, every failure to turn the
\* body into a ProviderMetadata ends the call with an OpenidProtocolError
\* whose cause is the original failure; no other exception leaves this stage.
C7_ParseFailuresWrapped ==
    (pc = "done" /\ parsed)
    => /\ outcome.kind = "raised" =>
            /\ Failed("OpenidProtocolError")
            /\ outcome.exc.cause # None
            /\ outcome.exc.cause.type \in {"ValidationError", "AssertionError"}
       /\ ~parse_raw("ProviderMetadata", response.content).ok =>
            /\ Failed("OpenidProtocolError")
            /\ outcome.exc.cause # None
            /\ outcome.exc.cause.type = "ValidationError"
            /\ outcome.exc.cause.errors # {}

C7_Witness ==
    /\ pc = "done"
    /\ parsed
    /\ Failed("OpenidProtocolError")
    /\ outcome.exc.cause # None
    /\ [loc |-> "jwks_uri", type |-> "value_error.missing"] \in outcome.exc.cause.errors


----------------------------------------------------------------------------
(* Properties of the message models *)

OpenSchemas ==
    {"ProviderMetadata", "IdToken", "AuthenticationRequest",
     "AuthenticationErrorResponse", "TokenRequest", "TokenErrorResponse"}
ClosedSchemas == {"AuthenticationSuccessResponse", "TokenSuccessResponse"}

\* the field names of the input that the model class does not declare
Undeclared == DOMAIN input \ DOMAIN fields(msgType)

\* the input without them
DeclaredPart == [f \in DOMAIN input \cap DOMAIN fields(msgType) |-> input[f]]

Constructed(types) == lastOp.op = "construct" /\ msgType \in types

\* C8 as stated: an attribute assignment never changes an instance of any
\* message type.
C8_EveryMessageImmutable ==
    [][lastOp'.op = "setattr" => instance' = instance]_vars

\* C8 amended: an attribute assignment never changes an instance of a
\* message type other than AuthenticationRequest and TokenRequest.
C8_ImmutableExceptRequests ==
    [][(lastOp'.op = "setattr" /\ msgType \notin {"AuthenticationRequest", "TokenRequest"})
          => instance' = instance]_vars

C8_Witness ==
    /\ msgType = "IdToken"
    /\ lastOp.op = "setattr"
    /\ lastOp.n = 2
    /\ instance # None
    /\ raised # None
    /\ raised.type = "TypeError"

C10_OpenSchemasKeepExtras ==
    (Constructed(OpenSchemas) /\ Undeclared # {})
    => /\ raised # None => \A e \in raised.errors : e.loc \notin Undeclared
       /\ (instance # None) <=>
             /\ RequiredFields(msgType) \subseteq DOMAIN input
             /\ \A f \in DOMAIN DeclaredPart :
                   validate_field(fields(msgType)[f], input[f]).ok
       /\ instance # None =>
             \A f \in Undeclared : f \in DOMAIN instance /\ instance[f] = input[f]

C10_Witness ==
    /\ Constructed({"ProviderMetadata"})
    /\ Undeclared = ExtraNames
    /\ instance # None
    /\ \A f \in ExtraNames : instance[f] = ListV(<<IntV(1)>>)

\* the fields that section 3 of the specification lists as required
RequiredBySpec(T) ==
    CASE T = "ProviderMetadata" ->
           {"issuer", "authorization_endpoint", "jwks_uri", "subject_types_supported",
            "id_token_signing_alg_values_supported"}
      [] T = "IdToken" -> {"iss", "sub", "aud", "exp", "iat"}
      [] T = "UserinfoRequest" -> {}
      [] T = "UserinfoSuccessResponse" -> {"sub"}
      [] T = "UserinfoErrorResponse" -> {"error"}
      [] T = "AuthenticationRequest" -> {"scope", "response_type", "client_id", "redirect_uri"}
      [] T = "AuthenticationSuccessResponse" -> {"code"}
      [] T = "AuthenticationErrorResponse" -> {"error"}
      [] T = "TokenRequest" -> {"grant_type", "code", "redirect_uri"}
      [] T = "TokenSuccessResponse" -> {"access_token", "token_type", "id_token"}
      [] T = "TokenErrorResponse" -> {"error"}

\* the required fields that the input leaves out
Missing == RequiredBySpec(msgType) \ DOMAIN input

\* C11: construction from an input that leaves out a required field fails
\* with an error that names the field, and there is no instance.
C11_MissingRequiredFieldFails ==
    (Constructed(MessageTypes) /\ Missing # {})
    => /\ instance = None
       /\ raised # None
       /\ raised.type = "ValidationError"
       /\ \A f \in Missing : [loc |-> f, type |-> "value_error.missing"] \in raised.errors

C11_Witness ==
    /\ Constructed({"IdToken"})
    /\ Missing = {"aud"}
    /\ instance = None
    /\ raised # None
    /\ raised.errors = {[loc |-> "aud", type |-> "value_error.missing"]}

\* the error codes that section 3 of the specification lists
AuthenticationErrorCodes ==
    {"invalid_request", "unauthorized_client", "access_denied",
     "unsupported_response_type", "invalid_scope", "server_error",
     "temporarily_unavailable", "interaction_required", "login_required",
     "account_selection_required", "consent_required", "invalid_request_uri",
     "invalid_request_object", "request_not_supported",
     "request_uri_not_supported", "registration_not_supported"}
TokenErrorCodes ==
    {"invalid_request", "invalid_client", "invalid_grant", "unauthorized_client",
     "unsupported_grant_type", "invalid_scope"}

ErrorCodes(T) ==
    IF T = "AuthenticationErrorResponse" THEN AuthenticationErrorCodes ELSE TokenErrorCodes

\* the last construction reported an error for the field f
FieldRejected(f) == raised # None /\ \E e \in raised.errors : e.loc = f

\* C12: the error field of AuthenticationErrorResponse and TokenErrorResponse
\* is accepted exactly when its text is a code of the vocabulary of that
\* message family; an accepted code is stored as given, any other text makes
\* construction fail.
C12_ErrorCodeInVocabulary ==
    (Constructed({"AuthenticationErrorResponse", "TokenErrorResponse"})
        /\ "error" \in DOMAIN input /\ input["error"].t = "str")
    => /\ FieldRejected("error") <=>
             ~(Len(input["error"].v) = 1 /\ input["error"].v[1] \in ErrorCodes(msgType))
       /\ FieldRejected("error") => instance = None
       /\ instance # None => instance["error"] = input["error"]

C12_Witness ==
    /\ Constructed({"TokenErrorResponse"})
    /\ "error" \in DOMAIN input
    /\ input["error"] = S("access_denied")
    /\ FieldRejected("error")
    /\ instance = None

\* the defaults that section 3 of the specification gives for ProviderMetadata
DefaultsBySpec ==
    "response_modes_supported" :> ListV(<<S("query"), S("fragment")>>)
    @@ "grant_types_supported" :> ListV(<<S("authorization_code"), S("implicit")>>)
    @@ "token_endpoint_auth_methods_supported" :> ListV(<<S("client_secret_basic")>>)
    @@ "claims_parameter_supported" :> BoolV(FALSE)
    @@ "request_parameter_supported" :> BoolV(FALSE)
    @@ "request_uri_parameter_supported" :> BoolV(TRUE)
    @@ "require_request_uri_registration" :> BoolV(FALSE)

\* a value that needs no conversion for the field f of DefaultsBySpec
ExplicitValue(f, v) ==
    \/ v = None
    \/ DefaultsBySpec[f].t = "bool" /\ v.t = "bool"
    \/ DefaultsBySpec[f].t = "list" /\ v.t = "list" /\ \A i \in 1..Len(v.l) : v.l[i].t = "str"

\* C13: a ProviderMetadata field with a default holds the default when the
\* input leaves the field out, and the value of the input when the input
\* gives one, an empty list included.
C13_DefaultsOnlyWhenAbsent ==
    (Constructed({"ProviderMetadata"}) /\ instance # None)
    => \A f \in DOMAIN DefaultsBySpec :
          /\ f \notin DOMAIN input => instance[f] = DefaultsBySpec[f]
          /\ (f \in DOMAIN input /\ ExplicitValue(f, input[f])) => instance[f] = input[f]

C13_Witness ==
    /\ Constructed({"ProviderMetadata"})
    /\ instance # None
    /\ "grant_types_supported" \in DOMAIN input
    /\ input["grant_types_supported"] = ListV(<<>>)
    /\ instance["grant_types_supported"] = ListV(<<>>)
    /\ instance["response_modes_supported"] = ListV(<<S("query"), S("fragment")>>)

KnownUrls == {<<Idp>>, <<Idp, "/", "auth">>, <<Idp, "/", "jwks">>}

ListOfStr(v) == v.t = "list" /\ \A i \in 1..Len(v.l) : v.l[i].t = "str"

\* the value v has the shape that the descriptor d of a field asks for
WellShaped(d, v) ==
    IF v = None THEN d.optional
    ELSE CASE d.shape = "str" -> v.t = "str"
           [] d.shape = "int" -> v.t = "int"
           [] d.shape = "bool" -> v.t = "bool"
           [] d.shape = "List[str]" -> ListOfStr(v)
           [] d.shape = "Union[str, List[str]]" -> v.t = "str" \/ ListOfStr(v)
           [] d.shape = "HttpUrl" -> v.t = "str" /\ v.v \in KnownUrls
           [] d.shape = "AuthenticationErrorResponse.ErrorType" ->
                v.t = "str" /\ Len(v.v) = 1 /\ v.v[1] \in AuthenticationErrorCodes
           [] d.shape = "TokenErrorResponse.ErrorType" ->
                v.t = "str" /\ Len(v.v) = 1 /\ v.v[1] \in TokenErrorCodes

\* every required field is in the input and every declared field is well shaped
ValidInput ==
    /\ RequiredBySpec(msgType) \subseteq DOMAIN input
    /\ \A f \in DOMAIN DeclaredPart : WellShaped(fields(msgType)[f], input[f])

AudGiven(shapes) ==
    /\ Constructed({"IdToken"})
    /\ "aud" \in DOMAIN input
    /\ input["aud"].t \in shapes
    /\ input["aud"].t = "list" => ListOfStr(input["aud"])

\* C15 as stated: an IdToken stores aud as a list of one or more texts,
\* whether a single text or a list was given.
C15_AudNormalizedToList ==
    (AudGiven({"str", "list"}) /\ instance # None)
    => /\ instance["aud"].t = "list"
       /\ Len(instance["aud"].l) >= 1

\* C15: IdToken accepts aud as a single text and as a list of texts (the
\* empty list included) and stores it in the shape it was given, without
\* turning a single text into a list.
C15_AudKeepsWireShape ==
    AudGiven({"str", "list"})
    => /\ ~FieldRejected("aud")
       /\ instance # None => instance["aud"] = input["aud"]

C15_Witness ==
    /\ AudGiven({"str"})
    /\ input["aud"] = S("client123")
    /\ instance # None
    /\ instance["aud"] = S("client123")

\* C19: a TokenRequest that was constructed has the grant type
\* "authorization_code".
C19_GrantTypeIsAuthorizationCode ==
    (Constructed({"TokenRequest"}) /\ instance # None)
    => instance["grant_type"] = S("authorization_code")

\* C20: a response without a Content-Type header fails with an
\* OpenidProtocolError that reports the absent header, its body is not
\* parsed and no metadata is returned.
C20_AbsentContentTypeRejected ==
    (pc = "done" /\ response # None /\ response.content_type = None)
    => /\ Failed("OpenidProtocolError")
       /\ outcome.exc.args = <<NotJsonMessage, None>>
       /\ outcome.exc.cause = None
       /\ ~parsed

C20_Witness ==
    /\ pc = "done"
    /\ response # None
    /\ response.content_type = None
    /\ response.status_code = 200
    /\ ValidBodyFor(response.content, issuerArg)
    /\ Failed("OpenidProtocolError")
    /\ ~parsed

\* C17: every call of discovery sends one GET and no step after it sends
\* another; a call starts without the response or the outcome of the call
\* before it, so the number of GETs sent is the number of calls made.
C17_OneRequestPerInvocation ==
    /\ [](requestsSent = invocations)
    /\ [][/\ invocations' = invocations + 1
             => /\ requestsSent' = requestsSent + 1
                /\ response' = None
                /\ outcome' = NoOutcome
          /\ invocations' = invocations => requestsSent' = requestsSent]_vars

C17_Witness ==
    /\ pc = "done"
    /\ invocations = MaxCalls
    /\ requestsSent = MaxCalls
    /\ Failed("ConnectionError")

----------------------------------------------------------------------------
(* Properties of the header helpers *)

\* position of the first ";" at or after i that is outside a quoted segment,
\* Len(s) + 1 if there is none; a quote opens or closes a segment unless a
\* backslash stands right before it
RECURSIVE SeparatorFrom(_, _, _)
SeparatorFrom(s, i, quoted) ==
    IF i > Len(s) THEN Len(s) + 1
    ELSE IF s[i] = ";" /\ ~quoted THEN i
    ELSE IF s[i] = "\"" /\ ~(i > 1 /\ s[i - 1] = "\\")
    THEN SeparatorFrom(s, i + 1, ~quoted)
    ELSE SeparatorFrom(s, i + 1, quoted)

\* the text before that ";", without the blanks around it
BareMediaType(line) == strip(SubSeq(line, 1, SeparatorFrom(line, 1, FALSE) - 1))

----------------------------------------------------------------------------
(* Properties of concurrent invocations *)

\* the outcome of the invocation g when no other invocation runs
Alone(g) ==
    IF g.op = "construct"
    THEN LET r == validate_model(g.T, g.obj)
         IN IF r.ok THEN Returned(r)
            ELSE Raised(Exception("ValidationError", <<>>, r.errors, None))
    ELSE IF g.reply.raises # "none"
    THEN Raised(Exception(g.reply.raises, <<>>, {}, None))
    ELSE IF g.reply.response.content_type # S("application/json")
    THEN Raised(Exception("OpenidProtocolError",
                          <<NotJsonMessage, g.reply.response.content_type>>, {}, None))
    ELSE LET doc == parse_raw("ProviderMetadata", g.reply.response.content)
             own == removesuffix(g.issuerArg, "/")
         IN IF ~doc.ok
            THEN Raised(Exception("OpenidProtocolError", <<NotConformingMessage>>, {},
                                  Exception("ValidationError", <<>>, doc.errors, None)))
            ELSE IF doc.values["issuer"] # StrV(own)
            THEN Raised(Exception("OpenidProtocolError", <<NotConformingMessage>>, {},
                                  Exception("AssertionError", <<>>, {}, None)))
            ELSE Returned(doc)

\* C18: under every interleaving, an invocation that has ended has the
\* outcome it has when run alone with its own issuer and reply, or with its
\* own arguments for a model.
C18_ConcurrentInvocationsIndependent ==
    \A p \in Procs : ppc[p] = "done" => results[p] = Alone(given[p])

C18_Witness ==
    /\ \A p \in Procs : ppc[p] = "done"
    /\ given[1].op = "discover"
    /\ given[2].op = "discover"
    /\ given[1].issuerArg # given[2].issuerArg
    /\ given[1].reply # given[2].reply
    /\ results[1].kind = "returned"
    /\ results[2].kind = "returned"

====
